---- MODULE Spec2Model ----
\* The task store of src/task_manager.py (Task, TaskManager) as a state machine:
\* the in-memory task list, the backing JSON document, and one action per
\* TaskManager call. A call log (hist) records every call with the state it
\* started from, so that properties of calls are state predicates. The main
\* window of src/gui.py adds its two filter variables and the rows of its task
\* tree, and one action per event handler.
EXTENDS Integers, Sequences, FiniteSets, TLC

VARIABLES tasks, doc, uuids, hist, priority_filter_var, status_filter_var, task_tree

vars == <<tasks, doc, uuids, hist, priority_filter_var, status_filter_var, task_tree>>

\* ---------------------------------------------------------------- bounds

\* Number of TaskManager calls (after the first construction) in one run.
MaxCalls == 2

\* Number of events of the main window (its construction included) in one run.
MaxEvents == 3

\* ---------------------------------------------------------------- values

\* Python's None, where a Task record or a due date is expected.
None == <<>>

\* task_manager.py line 7.
VALID_PRIORITIES == <<"High", "Medium", "Low">>

\* The encoding _save_tasks passes to open(), and the encodings Python knows
\* (a sample of the codec registry; "utf-f" is in no registry).
SaveEncoding == "utf-f"

KnownEncodings == {"utf-8", "utf-16", "ascii", "latin-1"}

\* uuid.uuid4().hex: the n-th identifier generated in a run. Generated
\* identifiers are pairwise distinct and distinct from every identifier a
\* document holds (122 random bits).
UuidHex == <<"u01", "u02", "u03", "u04", "u05", "u06", "u07", "u08", "u09", "u10", "u11", "u12">>

\* Mutant of uuid4: an identifier a document may already hold.
uuid4_reused(n) == "a"

uuid4(n) == UuidHex[n + 1]

\* A due date text "Y-M-D" is the tuple of its three numbers: "2024-13-40" is
\* <<2024, 13, 40>>.
IsLeap(y) == (y % 4 = 0 /\ y % 100 # 0) \/ y % 400 = 0

DaysInMonth(y, m) ==
    IF m = 2 THEN (IF IsLeap(y) THEN 29 ELSE 28)
    ELSE IF m \in {4, 6, 9, 11} THEN 30 ELSE 31

\* datetime.strptime(s, "%Y-%m-%d"): the exception it raises ("" when it
\* returns). None is no string (TypeError); the format's pattern takes a
\* four-digit year, a month 1..12 and a day 1..31; the date constructor then
\* rejects year 0 and a day past the month's end.
strptime(s) ==
    IF s = None THEN "TypeError"
    ELSE IF ~(s[1] \in 0..9999 /\ s[2] \in 1..12 /\ s[3] \in 1..31) THEN "ValueError"
    ELSE IF s[1] < 1 \/ s[3] > DaysInMonth(s[1], s[2]) THEN "ValueError"
    ELSE ""

\* ---------------------------------------------------------------- Task

\* Task.__init__: a falsy id (None or "", both written "" here) is replaced by
\* a fresh uuid.
Task(title, description, priority, due_date, completed, id, fresh) ==
    [id |-> IF id # "" THEN id ELSE fresh,
     title |-> title,
     description |-> description,
     priority |-> priority,
     due_date |-> due_date,
     completed |-> completed]

\* Task.to_dict: the JSON object of a task (None is written as null, and read
\* back as None).
to_dict(t) ==
    [id |-> t.id, title |-> t.title, description |-> t.description,
     priority |-> t.priority, due_date |-> t.due_date, completed |-> t.completed]

\* dict.get(key, default) on a JSON object, a record of the keys it holds.
DictGet(data, key, default) == IF key \in DOMAIN data THEN data[key] ELSE default

\* Mutant of from_dict: a missing priority defaults to High.
from_dict_high(data, fresh) ==
    Task(DictGet(data, "title", ""),
         DictGet(data, "description", ""),
         DictGet(data, "priority", "High"),
         DictGet(data, "due_date", None),
         DictGet(data, "completed", FALSE),
         DictGet(data, "id", ""),
         fresh)

\* Mutant of from_dict: a missing due date defaults to a date.
from_dict_dated(data, fresh) ==
    Task(DictGet(data, "title", ""),
         DictGet(data, "description", ""),
         DictGet(data, "priority", "Medium"),
         DictGet(data, "due_date", <<2025, 1, 10>>),
         DictGet(data, "completed", FALSE),
         DictGet(data, "id", ""),
         fresh)

\* Task.from_dict.
from_dict(data, fresh) ==
    Task(DictGet(data, "title", ""),
         DictGet(data, "description", ""),
         DictGet(data, "priority", "Medium"),
         DictGet(data, "due_date", None),
         DictGet(data, "completed", FALSE),
         DictGet(data, "id", ""),
         fresh)

\* ---------------------------------------------------------------- documents

\* The backing document: absent, zero bytes, text that is no JSON, a JSON
\* object, or a JSON array.
AbsentFile == [kind |-> "absent", data |-> <<>>]

EmptyFile == [kind |-> "empty", data |-> <<>>]

MalformedFile == [kind |-> "malformed", data |-> <<>>]

JsonArray(data) == [kind |-> "array", data |-> data]

\* A document whose top level is a JSON object with a key, {"tasks": []}.
JsonObject == [kind |-> "object", data |-> <<>>]

\* An array element that is no JSON object (the number 5), written as a record
\* with the one key nonobject, which no object of a document has.
NotAnObject == [nonobject |-> "5"]

IsObject(e) == "nonobject" \notin DOMAIN e

\* The place of the first element of the array that is no object, one past
\* the end when every element is an object.
FirstNonObject(data) ==
    IF \A i \in DOMAIN data : IsObject(data[i]) THEN Len(data) + 1
    ELSE CHOOSE i \in DOMAIN data :
            ~IsObject(data[i]) /\ \A j \in 1..(i - 1) : IsObject(data[j])

\* Whether loading element e draws a uuid.
NeedsUuid(e) == DictGet(e, "id", "") = ""

UuidsBefore(data, i) == Cardinality({j \in 1..(i - 1) : NeedsUuid(data[j])})

\* The exception the try block of _load_tasks raises on document d, "" when
\* none: open() on an absent file, json.load on text that is no JSON, the
\* comprehension's task_data.get on a key of a top-level object (a str) or on
\* an element that is no object.
load_raised(d) ==
    IF d.kind = "absent" THEN "FileNotFoundError"
    ELSE IF d.kind \in {"empty", "malformed"} THEN "JSONDecodeError"
    ELSE IF d.kind = "object" THEN "AttributeError"
    ELSE IF FirstNonObject(d.data) <= Len(d.data) THEN "AttributeError"
    ELSE ""

\* Mutant of load_tasks: the tasks built before the exception are kept.
load_tasks_partial(d, n) ==
    IF d.kind # "array" THEN <<>>
    ELSE [i \in 1..(FirstNonObject(d.data) - 1) |->
             from_dict(d.data[i], uuid4(n + UuidsBefore(d.data, i)))]

\* TaskManager._load_tasks: the task list loaded from document d when n uuids
\* have been generated so far. self.tasks is assigned once the whole
\* comprehension is built; each except clause (the last is except Exception)
\* assigns [].
load_tasks(d, n) ==
    IF load_raised(d) # "" THEN <<>>
    ELSE [i \in DOMAIN d.data |-> from_dict(d.data[i], uuid4(n + UuidsBefore(d.data, i)))]

\* The number of uuids generated once document d is loaded: one for each
\* object without an id that the comprehension reaches.
load_uuids(d, n) ==
    IF d.kind = "array" THEN n + UuidsBefore(d.data, FirstNonObject(d.data)) ELSE n

\* json.dump([task.to_dict() for task in self.tasks], f).
Serialize(ts) == JsonArray([i \in DOMAIN ts |-> to_dict(ts[i])])

\* TaskManager._save_tasks: the document after the call. open(path, 'w',
\* encoding=...) creates or truncates the file before it looks the encoding
\* up; an unknown encoding raises LookupError, which the except clause
\* swallows, and nothing is written.
save_tasks(ts) ==
    IF SaveEncoding \in KnownEncodings THEN Serialize(ts) ELSE EmptyFile

\* ---------------------------------------------------------------- TaskManager

\* The result of a call: the store after it, the exception it raised ("" when
\* it returned), the boolean it returned (FALSE when it returns no boolean)
\* and the Task it returned (None when it returns no Task).
Result(ts, d, n, raised, returned, task) ==
    [tasks |-> ts, doc |-> d, uuids |-> n, raised |-> raised,
     returned |-> returned, task |-> task]

\* TaskManager._validate_due_date: the exception raised, "" when none. A
\* ValueError of strptime is raised again as ValueError; any other exception
\* passes through.
validate_due_date(due_date) ==
    IF strptime(due_date) = "ValueError" THEN "ValueError" ELSE strptime(due_date)

\* Mutant of validate_priority: every priority passes.
validate_priority_any(priority) == ""

\* TaskManager._validate_priority.
validate_priority(priority) ==
    IF \E i \in DOMAIN VALID_PRIORITIES : VALID_PRIORITIES[i] = priority
    THEN "" ELSE "ValueError"

\* Mutant of find: falls back to the first task when no id matches.
find_or_first(ts, task_id) ==
    IF \E i \in DOMAIN ts : ts[i].id = task_id
    THEN CHOOSE i \in DOMAIN ts :
            /\ ts[i].id = task_id
            /\ \A j \in 1..(i - 1) : ts[j].id # task_id
    ELSE IF ts = <<>> THEN 0 ELSE 1

\* The loop of TaskManager.get_task: the position of the first task whose id
\* is task_id, 0 when there is none.
find(ts, task_id) ==
    IF \E i \in DOMAIN ts : ts[i].id = task_id
    THEN CHOOSE i \in DOMAIN ts :
            /\ ts[i].id = task_id
            /\ \A j \in 1..(i - 1) : ts[j].id # task_id
    ELSE 0

\* TaskManager.get_task.
get_task(ts, task_id) ==
    IF find(ts, task_id) = 0 THEN None ELSE ts[find(ts, task_id)]

\* Mutant of RemoveAt: the last task is moved into the place of the removed one.
RemoveAt_swap(ts, k) ==
    [i \in 1..(Len(ts) - 1) |-> IF i = k THEN ts[Len(ts)] ELSE ts[i]]

\* list.remove of the task at position k.
RemoveAt(ts, k) == [i \in 1..(Len(ts) - 1) |-> IF i < k THEN ts[i] ELSE ts[i + 1]]

\* TaskManager.add_task with arguments a, when n uuids have been generated.
add_task(ts, d, n, a) ==
    IF validate_due_date(a.due_date) # ""
    THEN Result(ts, d, n, validate_due_date(a.due_date), FALSE, None)
    ELSE IF validate_priority(a.priority) # ""
    THEN Result(ts, d, n, validate_priority(a.priority), FALSE, None)
    ELSE LET new_task == Task(a.title, a.description, a.priority, a.due_date,
                              FALSE, "", uuid4(n))
             appended == Append(ts, new_task)
         IN  Result(appended, save_tasks(appended), n + 1, "", FALSE, new_task)

\* Mutant of edit_task: an omitted description is assigned as the empty string.
edit_task_clears(ts, d, n, task_id, a) ==
    LET k == find(ts, task_id)
        raised == IF "priority" \in DOMAIN a /\ validate_priority(a.priority) # ""
                  THEN validate_priority(a.priority)
                  ELSE IF "due_date" \in DOMAIN a THEN validate_due_date(a.due_date) ELSE ""
        edited == [ts EXCEPT ![k] =
                      [id |-> ts[k].id,
                       title |-> DictGet(a, "title", ts[k].title),
                       description |-> DictGet(a, "description", ""),
                       priority |-> DictGet(a, "priority", ts[k].priority),
                       due_date |-> DictGet(a, "due_date", ts[k].due_date),
                       completed |-> DictGet(a, "completed", ts[k].completed)]]
    IN  IF k = 0 THEN Result(ts, d, n, "", FALSE, None)
        ELSE IF raised # "" THEN Result(ts, d, n, raised, FALSE, None)
        ELSE Result(edited, save_tasks(edited), n, "", TRUE, None)

\* TaskManager.edit_task: a holds the arguments that are not None. The fields
\* are assigned in the order of the code, each as soon as it is reached.
edit_task(ts, d, n, task_id, a) ==
    LET k == find(ts, task_id) IN
    IF k = 0 THEN Result(ts, d, n, "", FALSE, None)
    ELSE
    LET t0 == ts[k]
        t1 == IF "title" \in DOMAIN a THEN [t0 EXCEPT !.title = a.title] ELSE t0
        t2 == IF "description" \in DOMAIN a
              THEN [t1 EXCEPT !.description = a.description] ELSE t1
        pv == IF "priority" \in DOMAIN a THEN validate_priority(a.priority) ELSE ""
        t3 == IF "priority" \in DOMAIN a /\ pv = ""
              THEN [t2 EXCEPT !.priority = a.priority] ELSE t2
        dv == IF pv = "" /\ "due_date" \in DOMAIN a
              THEN validate_due_date(a.due_date) ELSE ""
        raised == IF pv # "" THEN pv ELSE dv
        t4 == IF "due_date" \in DOMAIN a /\ raised = ""
              THEN [t3 EXCEPT !.due_date = a.due_date] ELSE t3
        t5 == IF "completed" \in DOMAIN a /\ raised = ""
              THEN [t4 EXCEPT !.completed = a.completed] ELSE t4
        changes_made == DOMAIN a # {}
        edited == [ts EXCEPT ![k] = t5]
    IN  IF raised # "" THEN Result(edited, d, n, raised, FALSE, None)
        ELSE Result(edited, IF changes_made THEN save_tasks(edited) ELSE d,
                    n, "", TRUE, None)

\* Mutant of delete_task: the task is put back when the document does not
\* hold the new list after the save.
delete_task_rollback(ts, d, n, task_id) ==
    LET k == find(ts, task_id) IN
    IF k = 0 THEN Result(ts, d, n, "", FALSE, None)
    ELSE IF save_tasks(RemoveAt(ts, k)) # Serialize(RemoveAt(ts, k))
    THEN Result(ts, save_tasks(RemoveAt(ts, k)), n, "", FALSE, None)
    ELSE Result(RemoveAt(ts, k), save_tasks(RemoveAt(ts, k)), n, "", TRUE, None)

\* TaskManager.delete_task.
delete_task(ts, d, n, task_id) ==
    LET k == find(ts, task_id) IN
    IF k = 0 THEN Result(ts, d, n, "", FALSE, None)
    ELSE Result(RemoveAt(ts, k), save_tasks(RemoveAt(ts, k)), n, "", TRUE, None)

\* Mutant of toggle_complete: marks the task completed instead of flipping.
toggle_complete_marks(ts, d, n, task_id) ==
    LET k == find(ts, task_id)
        toggled == [ts EXCEPT ![k].completed = TRUE]
    IN  IF k = 0 THEN Result(ts, d, n, "", FALSE, None)
        ELSE Result(toggled, save_tasks(toggled), n, "", TRUE, None)

\* TaskManager.toggle_complete.
toggle_complete(ts, d, n, task_id) ==
    LET k == find(ts, task_id)
        toggled == [ts EXCEPT ![k].completed = ~ts[k].completed]
    IN  IF k = 0 THEN Result(ts, d, n, "", FALSE, None)
        ELSE Result(toggled, save_tasks(toggled), n, "", TRUE, None)

\* TaskManager.clear_all_tasks.
clear_all_tasks(ts, d, n) == Result(<<>>, save_tasks(<<>>), n, "", FALSE, None)

\* Mutant of init_store: the JSONDecodeError of json.load is not caught.
init_store_raises(d, n) ==
    IF d.kind \in {"empty", "malformed"}
    THEN Result(<<>>, d, n, "JSONDecodeError", FALSE, None)
    ELSE Result(load_tasks(d, n), d, load_uuids(d, n), "", FALSE, None)

\* TaskManager.__init__ on the document d: a new store on the same file.
init_store(d, n) == Result(load_tasks(d, n), d, load_uuids(d, n), "", FALSE, None)

\* The result of a call that returns a list (or, for the GUI's refresh, shows
\* one).
ListResult(ts, d, n, raised, list) ==
    [tasks |-> ts, doc |-> d, uuids |-> n, raised |-> raised,
     returned |-> FALSE, task |-> None, list |-> list]

\* Mutant of get_all_tasks: returns self.tasks itself.
get_all_tasks_alias(ts) == [list |-> ts, shared |-> TRUE]

\* TaskManager.get_all_tasks: self.tasks[:], a new list of the same tasks.
\* shared tells whether the returned list is the store's own list object.
get_all_tasks(ts) == [list |-> ts, shared |-> FALSE]

\* What a caller does in place to a list it was handed: nothing, list.pop(0),
\* list.append of its first element, list.reverse().
ChangeList(list, change) ==
    IF change = "nothing" \/ list = <<>> THEN list
    ELSE IF change = "pop" THEN Tail(list)
    ELSE IF change = "append" THEN Append(list, Head(list))
    ELSE [i \in DOMAIN list |-> list[Len(list) + 1 - i]]

\* get_all_tasks() followed by the caller's change of the returned list: the
\* store's list changes with it exactly when it is the same list object.
get_all_tasks_then(ts, d, n, change) ==
    LET got == get_all_tasks(ts)
        changed == ChangeList(got.list, change)
    IN  ListResult(IF got.shared THEN changed ELSE ts, d, n, "", changed)

\* Mutant of get_tasks_by_priority: the priority is not validated.
get_tasks_by_priority_lenient(ts, d, n, priority_level) ==
    LET Matches(task) == task.priority = priority_level IN
    ListResult(ts, d, n, "", SelectSeq(ts, Matches))

\* Mutant of get_tasks_by_priority: no filter.
get_tasks_by_priority_all(ts, d, n, priority_level) ==
    IF validate_priority(priority_level) # ""
    THEN ListResult(ts, d, n, validate_priority(priority_level), <<>>)
    ELSE ListResult(ts, d, n, "", ts)

\* TaskManager.get_tasks_by_priority.
get_tasks_by_priority(ts, d, n, priority_level) ==
    LET Matches(task) == task.priority = priority_level IN
    IF validate_priority(priority_level) # ""
    THEN ListResult(ts, d, n, validate_priority(priority_level), <<>>)
    ELSE ListResult(ts, d, n, "", SelectSeq(ts, Matches))

\* TaskManager.get_tasks_by_completion.
get_tasks_by_completion(ts, d, n, completed_status) ==
    LET Matches(task) == task.completed = completed_status IN
    ListResult(ts, d, n, "", SelectSeq(ts, Matches))

\* ---------------------------------------------------------------- the task list of the GUI

\* Mutant of priority_map: ranks in the reverse order.
priority_map_reversed(priority) ==
    IF \E i \in DOMAIN VALID_PRIORITIES : VALID_PRIORITIES[i] = priority
    THEN Len(VALID_PRIORITIES) - (CHOOSE i \in DOMAIN VALID_PRIORITIES : VALID_PRIORITIES[i] = priority)
    ELSE Len(VALID_PRIORITIES)

\* priority_map.get(t.priority, len(VALID_PRIORITIES)) of _refresh_task_list:
\* High 0, Medium 1, Low 2, anything else 3.
priority_map(priority) ==
    IF \E i \in DOMAIN VALID_PRIORITIES : VALID_PRIORITIES[i] = priority
    THEN (CHOOSE i \in DOMAIN VALID_PRIORITIES : VALID_PRIORITIES[i] = priority) - 1
    ELSE Len(VALID_PRIORITIES)

\* datetime's order on parsed dates.
DateLess(a, b) ==
    \/ a[1] < b[1]
    \/ a[1] = b[1] /\ a[2] < b[2]
    \/ a[1] = b[1] /\ a[2] = b[2] /\ a[3] < b[3]

\* The order of the keys (strptime(t.due_date), rank) of the first sort, and
\* of the keys rank of the fallback sort.
KeyLess(t, u) ==
    \/ DateLess(t.due_date, u.due_date)
    \/ t.due_date = u.due_date /\ priority_map(t.priority) < priority_map(u.priority)

RankLess(t, u) == priority_map(t.priority) < priority_map(u.priority)

\* list.sort(key=...), with the keys of the first sort (by_date) or of the
\* fallback sort: a stable sort; equal keys keep their order.
StableSort(list, by_date) ==
    LET Less(t, u) == IF by_date THEN KeyLess(t, u) ELSE RankLess(t, u)
        Pos(i) == 1 + Cardinality({j \in DOMAIN list :
                        \/ Less(list[j], list[i])
                        \/ ~Less(list[i], list[j]) /\ j < i})
    IN  [p \in DOMAIN list |-> list[CHOOSE i \in DOMAIN list : Pos(i) = p]]

\* The exception the key function of the first sort raises: list.sort computes
\* the keys in list order before it moves anything, so it is that of the first
\* task whose due date strptime rejects ("" when there is none), and the list
\* is left in its order.
KeyError(list) ==
    IF \A i \in DOMAIN list : strptime(list[i].due_date) = "" THEN ""
    ELSE strptime(list[CHOOSE i \in DOMAIN list :
                          /\ strptime(list[i].due_date) # ""
                          /\ \A j \in 1..(i - 1) : strptime(list[j].due_date) = ""].due_date)

\* The values of a row of the task tree.
Row(task) ==
    [id |-> task.id, title |-> task.title, priority |-> task.priority,
     due_date |-> task.due_date,
     status |-> IF task.completed THEN "Completed" ELSE "Pending"]

\* MainApplication._refresh_task_list(tasks_to_display): given tells whether
\* tasks_to_display is passed (is not None). The tree is emptied, the list is
\* sorted in place, by due date then rank, or by rank alone when the first
\* sort raises ValueError; any other exception leaves the method with the
\* tree empty. The result's list is the rows of the tree.
refresh_task_list(ts, d, n, given, tasks_to_display) ==
    LET got == IF given THEN [list |-> tasks_to_display, shared |-> FALSE]
               ELSE get_all_tasks(ts)
        exc == KeyError(got.list)
        sorted == IF exc = "" THEN StableSort(got.list, TRUE)
                  ELSE IF exc = "ValueError" THEN StableSort(got.list, FALSE)
                  ELSE got.list
        store == IF got.shared THEN sorted ELSE ts
    IN  IF exc \in {"", "ValueError"}
        THEN ListResult(store, d, n, "", [i \in DOMAIN sorted |-> Row(sorted[i])])
        ELSE ListResult(store, d, n, exc, <<>>)

\* MainApplication._filter_tasks with the two filter variables as the
\* comboboxes have set them.
filter_tasks(ts, d, n, priority_filter, status_filter) ==
    LET all == get_all_tasks(ts).list
        HasPriority(task) == task.priority = priority_filter
        by_priority == IF priority_filter # "All" THEN SelectSeq(all, HasPriority) ELSE all
        status_bool == (status_filter = "Completed")
        HasStatus(task) == task.completed = status_bool
        current_tasks == IF status_filter # "All" THEN SelectSeq(by_priority, HasStatus)
                         ELSE by_priority
    IN  refresh_task_list(ts, d, n, TRUE, current_tasks)

\* MainApplication._get_selected_task_id: the id in the focused row, "" (None)
\* when no row has the focus (selected = 0).
get_selected_task_id(rows, selected) == IF selected = 0 THEN "" ELSE rows[selected].id

\* MainApplication._delete_selected_task; confirm is the answer to the
\* confirmation dialog. The result's list is the rows of the tree afterwards.
delete_selected_task(ts, d, n, rows, selected, confirm) ==
    LET selected_task_id == get_selected_task_id(rows, selected) IN
    IF selected_task_id = "" THEN ListResult(ts, d, n, "", rows)
    ELSE IF get_task(ts, selected_task_id) = None THEN refresh_task_list(ts, d, n, FALSE, <<>>)
    ELSE IF ~confirm THEN ListResult(ts, d, n, "", rows)
    ELSE LET r == delete_task(ts, d, n, selected_task_id)
         IN  refresh_task_list(r.tasks, r.doc, r.uuids, FALSE, <<>>)

\* MainApplication._toggle_selected_task_completion.
toggle_selected_task_completion(ts, d, n, rows, selected) ==
    LET selected_task_id == get_selected_task_id(rows, selected) IN
    IF selected_task_id = "" THEN ListResult(ts, d, n, "", rows)
    ELSE IF get_task(ts, selected_task_id) = None THEN refresh_task_list(ts, d, n, FALSE, <<>>)
    ELSE LET r == toggle_complete(ts, d, n, selected_task_id)
         IN  refresh_task_list(r.tasks, r.doc, r.uuids, FALSE, <<>>)

\* str.strip() on the texts typed into the dialog.
strip(text) == IF text = " " THEN "" ELSE IF text = " File taxes " THEN "File taxes" ELSE text

\* datetime.now().strftime("%Y-%m-%d"), the due date an empty dialog shows.
Today == <<2025, 1, 10>>

\* The fields of a TaskDialog when Save is pressed: those TaskDialog shows at
\* first (_create_widgets, _populate_fields), task_data being None for the
\* add dialog, overwritten by what the user typed.
DialogFields(task_data, typed) ==
    LET shown == IF task_data = None
                 THEN [title |-> "", description |-> "", priority |-> "Medium",
                       due_date |-> Today, completed |-> FALSE]
                 ELSE [title |-> task_data.title, description |-> task_data.description,
                       priority |-> task_data.priority,
                       due_date |-> IF task_data.due_date # None THEN task_data.due_date
                                    ELSE Today,
                       completed |-> task_data.completed]
    IN  [f \in DOMAIN shown |-> DictGet(typed, f, shown[f])]

\* TaskDialog._validate_inputs.
validate_inputs(title, priority, due_date) ==
    /\ title # ""
    /\ strptime(due_date) # "ValueError"
    /\ priority # ""
    /\ validate_priority(priority) = ""

\* TaskDialog._save_task on the dialog's fields. A ValueError of the store
\* and any exception of the refresh end in a message box; the tree then keeps
\* what it shows (after the refresh's clearing, nothing).
save_task(ts, d, n, rows, task_data, fields) ==
    LET title == strip(fields.title)
        description == strip(fields.description)
        r == IF task_data # None
             THEN edit_task(ts, d, n, task_data.id,
                            [title |-> title, description |-> description,
                             priority |-> fields.priority, due_date |-> fields.due_date,
                             completed |-> fields.completed])
             ELSE add_task(ts, d, n,
                           [title |-> title, description |-> description,
                            priority |-> fields.priority, due_date |-> fields.due_date])
        shown == refresh_task_list(r.tasks, r.doc, r.uuids, FALSE, <<>>)
    IN  IF ~validate_inputs(title, fields.priority, fields.due_date)
        THEN ListResult(ts, d, n, "", rows)
        ELSE IF r.raised # "" THEN ListResult(r.tasks, r.doc, r.uuids, "", rows)
        ELSE ListResult(shown.tasks, shown.doc, shown.uuids, "", shown.list)

\* MainApplication._open_edit_task_dialog followed by the dialog's Save.
edit_selected_task(ts, d, n, rows, selected, typed) ==
    LET selected_task_id == get_selected_task_id(rows, selected)
        task_object == get_task(ts, selected_task_id)
    IN  IF selected_task_id = "" THEN ListResult(ts, d, n, "", rows)
        ELSE IF task_object = None THEN refresh_task_list(ts, d, n, FALSE, <<>>)
        ELSE save_task(ts, d, n, rows, task_object, DialogFields(task_object, typed))

\* ---------------------------------------------------------------- inputs

\* The arguments add_task is called with.
AddArgs ==
    {[title |-> "Buy milk", description |-> "2%", priority |-> "Medium", due_date |-> <<2025, 1, 10>>],
     [title |-> "File taxes", description |-> "", priority |-> "High", due_date |-> <<2025, 1, 5>>],
     [title |-> "Buy milk", description |-> "", priority |-> "Low", due_date |-> <<2024, 3, 15>>],
     [title |-> "", description |-> "2%", priority |-> "Low", due_date |-> <<2024, 2, 29>>],
     [title |-> "Buy milk", description |-> "", priority |-> "Urgent", due_date |-> <<2025, 1, 10>>],
     [title |-> "File taxes", description |-> "", priority |-> "High", due_date |-> <<2024, 13, 40>>],
     [title |-> "Buy milk", description |-> "2%", priority |-> "urgent", due_date |-> <<2023, 2, 29>>]}

\* The arguments edit_task is called with: a record of the arguments that are
\* not None.
EditArgs ==
    {<<>>,
     [title |-> "File taxes"],
     [description |-> "2%"],
     [priority |-> "Low"],
     [due_date |-> <<2025, 1, 5>>],
     [completed |-> TRUE],
     [title |-> "Buy milk", description |-> "", priority |-> "High",
      due_date |-> <<2024, 3, 15>>, completed |-> TRUE],
     [priority |-> "Urgent"],
     [title |-> "File taxes", priority |-> "Urgent"],
     [description |-> "2%", priority |-> "Low", due_date |-> <<2023, 2, 29>>, completed |-> FALSE]}

\* The documents a run starts from.
EMilk ==
    [id |-> "a", title |-> "Buy milk", description |-> "2%", priority |-> "Medium",
     due_date |-> <<2025, 1, 10>>, completed |-> FALSE]

ETaxes ==
    [id |-> "b", title |-> "File taxes", description |-> "", priority |-> "High",
     due_date |-> <<2025, 1, 5>>, completed |-> TRUE]

ESameId ==
    [id |-> "a", title |-> "File taxes", description |-> "", priority |-> "Low",
     due_date |-> <<2025, 1, 5>>, completed |-> TRUE]

ETitleOnly == [title |-> "File taxes"]

ENullId == [id |-> "", title |-> "Buy milk", due_date |-> <<2024, 3, 15>>]

EUnchecked ==
    [id |-> "c", priority |-> "Urgent", due_date |-> <<2024, 13, 40>>, completed |-> TRUE]

Documents ==
    {AbsentFile, MalformedFile, JsonArray(<<>>), JsonArray(<<EMilk>>),
     JsonArray(<<EMilk, ETaxes>>), JsonArray(<<EMilk, ESameId>>),
     JsonArray(<<ETitleOnly, EUnchecked>>), JsonArray(<<EUnchecked, EMilk, ETaxes>>),
     JsonArray(<<ENullId>>), JsonObject, JsonArray(<<ETitleOnly, EMilk, NotAnObject, ETaxes>>)}

\* An id no document holds and uuid4 never returns.
UnknownId == "zz"

Ids(ts) == {ts[i].id : i \in DOMAIN ts}

\* The ids a call is made with: those of the tasks in the store, those of the
\* tasks the last call started from, and one that matches nothing.
IdInputs ==
    Ids(tasks) \cup (IF hist = <<>> THEN {} ELSE Ids(hist[Len(hist)].pre)) \cup {UnknownId}

\* What the user types into the add dialog and into the edit dialog, and the
\* filters the user picks in the two comboboxes.
AddTyped ==
    {[title |-> " File taxes ", priority |-> "High", due_date |-> <<2025, 1, 5>>],
     [title |-> " "]}

EditTyped == {[priority |-> "Low"], [title |-> "", completed |-> TRUE]}

FilterChoices == {<<"All", "All">>, <<"High", "All">>, <<"All", "Pending">>}

\* ---------------------------------------------------------------- actions

\* main(): the store is constructed on the document; the window's filter
\* variables start at "All" and its tree is empty until it is built.
Init ==
    /\ doc \in Documents
    /\ tasks = load_tasks(doc, 0)
    /\ uuids = load_uuids(doc, 0)
    /\ hist = <<>>
    /\ priority_filter_var = "All"
    /\ status_filter_var = "All"
    /\ task_tree = <<>>

\* The store becomes r's, and the call op(id, args) with result r is logged
\* with the store it started from.
Log(op, id, args, r) ==
    /\ tasks' = r.tasks
    /\ doc' = r.doc
    /\ uuids' = r.uuids
    /\ hist' = Append(hist, [op |-> op, id |-> id, args |-> args,
                             raised |-> r.raised, returned |-> r.returned,
                             task |-> r.task, list |-> DictGet(r, "list", <<>>),
                             pre |-> tasks, preDoc |-> doc])

\* A call of the store.
Call(op, id, args, r) ==
    /\ Len(hist) < MaxCalls
    /\ Log(op, id, args, r)
    /\ UNCHANGED <<priority_filter_var, status_filter_var, task_tree>>

\* An event handler of the main window, which exists once MainApplication()
\* has run as the first event; the tree shows the rows of r.
Handler(op, id, args, r) ==
    /\ hist # <<>> /\ hist[1].op = "MainApplication"
    /\ Len(hist) < MaxEvents
    /\ Log(op, id, args, r)
    /\ task_tree' = r.list

Construct ==
    /\ load_uuids(doc, uuids) <= Len(UuidHex)
    /\ Call("__init__", "", <<>>, init_store(doc, uuids))

AddTask ==
    \E a \in AddArgs :
        /\ uuids < Len(UuidHex)
        /\ Call("add_task", "", a, add_task(tasks, doc, uuids, a))

GetTask ==
    \E id \in IdInputs :
        Call("get_task", id, <<>>, Result(tasks, doc, uuids, "", FALSE, get_task(tasks, id)))

EditTask ==
    \E id \in IdInputs, a \in EditArgs :
        Call("edit_task", id, a, edit_task(tasks, doc, uuids, id, a))

DeleteTask ==
    \E id \in IdInputs :
        Call("delete_task", id, <<>>, delete_task(tasks, doc, uuids, id))

ToggleComplete ==
    \E id \in IdInputs :
        Call("toggle_complete", id, <<>>, toggle_complete(tasks, doc, uuids, id))

ClearAllTasks ==
    Call("clear_all_tasks", "", <<>>, clear_all_tasks(tasks, doc, uuids))

GetAllTasks ==
    \E change \in {"pop", "append", "reverse"} :
        Call("get_all_tasks", "", [change |-> change],
             get_all_tasks_then(tasks, doc, uuids, change))

GetTasksByPriority ==
    \E p \in {"High", "Low", "Urgent"} :
        Call("get_tasks_by_priority", "", [priority_level |-> p],
             get_tasks_by_priority(tasks, doc, uuids, p))

GetTasksByCompletion ==
    \E c \in BOOLEAN :
        Call("get_tasks_by_completion", "", [completed_status |-> c],
             get_tasks_by_completion(tasks, doc, uuids, c))

RefreshTaskList ==
    LET r == refresh_task_list(tasks, doc, uuids, FALSE, <<>>) IN
    /\ Len(hist) < MaxCalls
    /\ Log("_refresh_task_list", "", <<>>, r)
    /\ task_tree' = r.list
    /\ UNCHANGED <<priority_filter_var, status_filter_var>>

Next ==
    \/ Construct
    \/ AddTask
    \/ GetTask
    \/ EditTask
    \/ DeleteTask
    \/ ToggleComplete
    \/ ClearAllTasks
    \/ GetAllTasks
    \/ GetTasksByPriority
    \/ GetTasksByCompletion
    \/ RefreshTaskList

Spec == Init /\ [][Next]_vars

\* MainApplication.__init__: the widgets are created and the tree is filled.
MainApplication ==
    LET r == refresh_task_list(tasks, doc, uuids, FALSE, <<>>) IN
    /\ hist = <<>>
    /\ Log("MainApplication", "", <<>>, r)
    /\ task_tree' = r.list
    /\ UNCHANGED <<priority_filter_var, status_filter_var>>

\* The user picks a value in a filter combobox, which sets the variables and
\* calls _filter_tasks.
FilterTasks ==
    \E choice \in FilterChoices :
        /\ Handler("_filter_tasks", "", [priority_filter |-> choice[1], status_filter |-> choice[2]],
                   filter_tasks(tasks, doc, uuids, choice[1], choice[2]))
        /\ priority_filter_var' = choice[1]
        /\ status_filter_var' = choice[2]

AddTaskDialog ==
    \E typed \in AddTyped :
        /\ uuids < Len(UuidHex)
        /\ Handler("_save_task", "", typed,
                   save_task(tasks, doc, uuids, task_tree, None, DialogFields(None, typed)))
        /\ UNCHANGED <<priority_filter_var, status_filter_var>>

EditTaskDialog ==
    \E selected \in 0..Len(task_tree), typed \in EditTyped :
        /\ Handler("_open_edit_task_dialog", get_selected_task_id(task_tree, selected), typed,
                   edit_selected_task(tasks, doc, uuids, task_tree, selected, typed))
        /\ UNCHANGED <<priority_filter_var, status_filter_var>>

DeleteSelectedTask ==
    \E selected \in 0..Len(task_tree), confirm \in BOOLEAN :
        /\ Handler("_delete_selected_task", get_selected_task_id(task_tree, selected),
                   [confirm |-> confirm],
                   delete_selected_task(tasks, doc, uuids, task_tree, selected, confirm))
        /\ UNCHANGED <<priority_filter_var, status_filter_var>>

ToggleSelectedTaskCompletion ==
    \E selected \in 0..Len(task_tree) :
        /\ Handler("_toggle_selected_task_completion",
                   get_selected_task_id(task_tree, selected), <<>>,
                   toggle_selected_task_completion(tasks, doc, uuids, task_tree, selected))
        /\ UNCHANGED <<priority_filter_var, status_filter_var>>

\* The program of main.py: the user's events on the main window.
GuiNext ==
    \/ MainApplication
    \/ FilterTasks
    \/ AddTaskDialog
    \/ EditTaskDialog
    \/ DeleteSelectedTask
    \/ ToggleSelectedTaskCompletion

GuiSpec == Init /\ [][GuiNext]_vars

\* ---------------------------------------------------------------- the call log

\* The store and the document after the n-th call of the log.
Post(n) == IF n = Len(hist) THEN tasks ELSE hist[n + 1].pre

PostDoc(n) == IF n = Len(hist) THEN doc ELSE hist[n + 1].preDoc

\* Whether some task of ts has this id.
Exists(ts, id) == \E i \in DOMAIN ts : ts[i].id = id

\* The position of the first task of ts with this id (there is one).
First(ts, id) == CHOOSE i \in DOMAIN ts : ts[i].id = id /\ \A j \in DOMAIN ts : ts[j].id = id => i <= j

\* The priorities and the due dates the data model allows: High, Medium or
\* Low, and a date of the calendar.
PriorityOk(p) == p \in {"High", "Medium", "Low"}

MonthLengths == <<31, 28, 31, 30, 31, 30, 31, 31, 30, 31, 30, 31>>

CalendarDate(d) ==
    /\ d # None
    /\ d[1] \in 1..9999
    /\ d[2] \in 1..12
    /\ d[3] >= 1
    /\ \/ d[3] <= MonthLengths[d[2]]
       \/ d[2] = 2 /\ d[3] = 29 /\ d[1] % 4 = 0 /\ (d[1] % 100 # 0 \/ d[1] % 400 = 0)

\* The n-th call changed the store: an add that returned, an edit of an
\* existing id with a field supplied, a delete or a toggle of an existing id,
\* or a clear.
Mutating(n) ==
    LET c == hist[n] IN
    \/ c.op = "add_task" /\ c.raised = ""
    \/ c.op = "edit_task" /\ c.returned /\ c.args # <<>>
    \/ c.op \in {"delete_task", "toggle_complete"} /\ c.returned
    \/ c.op = "clear_all_tasks"

\* ---------------------------------------------------------------- claims

\* C1: starting from an empty store, after N successful add calls, a new
\* store constructed on the same document holds exactly the N added records,
\* field by field, in the order they were added.
C1_RoundTrip ==
    \A n \in DOMAIN hist :
        ( /\ hist[1].pre = <<>>
          /\ hist[n].op = "__init__"
          /\ \A i \in 1..(n - 1) : hist[i].op = "add_task" /\ hist[i].raised = "" )
        => /\ Len(Post(n)) = n - 1
           /\ \A i \in 1..(n - 1) : Post(n)[i] = hist[i].task

\* C2: when a mutating call returns, the document is the serialization of
\* exactly the in-memory records, in the same order.
C2_FullOverwrite ==
    \A n \in DOMAIN hist : Mutating(n) => PostDoc(n) = Serialize(Post(n))

C4_AddValidates ==
    \A n \in DOMAIN hist :
        LET c == hist[n] IN
        c.op = "add_task" =>
            IF PriorityOk(c.args.priority) /\ CalendarDate(c.args.due_date)
            THEN /\ c.raised = ""
                 /\ c.task # None
                 /\ Len(Post(n)) = Len(c.pre) + 1
                 /\ Post(n)[Len(Post(n))] = c.task
            ELSE /\ c.raised = "ValueError"
                 /\ c.task = None
                 /\ Post(n) = c.pre
                 /\ PostDoc(n) = c.preDoc

C4_Witness ==
    /\ \E n \in DOMAIN hist :
        /\ hist[n].op = "add_task"
        /\ hist[n].args.due_date = <<2024, 13, 40>>
        /\ hist[n].raised = "ValueError"
        /\ hist[n].pre # <<>>
    /\ \E n \in DOMAIN hist :
        /\ hist[n].op = "add_task"
        /\ hist[n].args.due_date = <<2024, 3, 15>>
        /\ hist[n].raised = ""

\* C5: after add(title, description, priority, due_date) with valid inputs,
\* get(returned.id) yields a record with these four values and completed
\* false.
C5_AddThenGet ==
    \A n \in DOMAIN hist :
        LET c == hist[n]
            got == get_task(Post(n), c.task.id)
        IN  (c.op = "add_task" /\ c.raised = "") =>
                /\ got # None
                /\ got.title = c.args.title
                /\ got.description = c.args.description
                /\ got.priority = c.args.priority
                /\ got.due_date = c.args.due_date
                /\ got.completed = FALSE

C5_Witness ==
    \E n \in DOMAIN hist :
        /\ hist[n].op = "add_task"
        /\ hist[n].raised = ""
        /\ Len(hist[n].pre) >= 2
        /\ get_task(Post(n), hist[n].task.id) = hist[n].task

\* C6: no two records of the live collection have the same id.
C6_UniqueIds ==
    \A i, j \in DOMAIN tasks : i # j => tasks[i].id # tasks[j].id

\* C7: an edit that returns True changes exactly the supplied fields of the
\* first record with that id, to the supplied values: its omitted fields, its
\* id and every other record are unchanged.
C7_EditFrame ==
    \A n \in DOMAIN hist :
        LET c == hist[n] IN
        (c.op = "edit_task" /\ c.raised = "" /\ c.returned) =>
            LET k == First(c.pre, c.id) IN
            /\ Len(Post(n)) = Len(c.pre)
            /\ \A i \in DOMAIN c.pre : i # k => Post(n)[i] = c.pre[i]
            /\ Post(n)[k].id = c.pre[k].id
            /\ \A f \in {"title", "description", "priority", "due_date", "completed"} :
                   Post(n)[k][f] = IF f \in DOMAIN c.args THEN c.args[f] ELSE c.pre[k][f]

C7_Witness ==
    \E n \in DOMAIN hist :
        /\ hist[n].op = "edit_task"
        /\ hist[n].returned
        /\ hist[n].args = [priority |-> "Low"]
        /\ Len(hist[n].pre) >= 2
        /\ hist[n].pre[First(hist[n].pre, hist[n].id)].priority # "Low"
        /\ Post(n) # hist[n].pre

\* C8: for an id that matches no record, get returns None and edit, delete
\* and toggle_complete return False; none raises, and the collection and the
\* document are unchanged.
C8_NotFound ==
    \A n \in DOMAIN hist :
        LET c == hist[n] IN
        ( /\ c.op \in {"get_task", "edit_task", "delete_task", "toggle_complete"}
          /\ ~Exists(c.pre, c.id) )
        => /\ c.raised = ""
           /\ c.returned = FALSE
           /\ c.task = None
           /\ Post(n) = c.pre
           /\ PostDoc(n) = c.preDoc

C8_Witness ==
    /\ Len(hist) = 2
    /\ hist[1].op = "delete_task" /\ hist[1].returned
    /\ hist[1].pre # <<>> /\ Post(1) # <<>>
    /\ hist[2].op = "edit_task" /\ hist[2].id = hist[1].id
    /\ "priority" \in DOMAIN hist[2].args /\ ~PriorityOk(hist[2].args.priority)
    /\ ~hist[2].returned

\* C9: when delete(id) returns True, a following get(id) returns None, and
\* delete removed exactly one record.
C9_DeleteThenGet ==
    \A n \in DOMAIN hist :
        LET c == hist[n] IN
        (c.op = "delete_task" /\ c.returned) =>
            /\ get_task(Post(n), c.id) = None
            /\ Len(Post(n)) = Len(c.pre) - 1

\* C10: two toggle_complete calls in a row on the same existing id: the first
\* flips completed and nothing else, and the second restores the whole
\* collection, so completed has its original value and every other field and
\* record is unchanged.
C10_ToggleInvolution ==
    \A n \in DOMAIN hist :
        ( /\ n >= 2
          /\ hist[n - 1].op = "toggle_complete"
          /\ hist[n].op = "toggle_complete"
          /\ hist[n].id = hist[n - 1].id
          /\ Exists(hist[n - 1].pre, hist[n].id) )
        => LET before == hist[n - 1].pre
               k == First(before, hist[n].id)
           IN  /\ hist[n - 1].returned /\ hist[n].returned
               /\ hist[n].pre = [before EXCEPT ![k].completed = ~before[k].completed]
               /\ Post(n) = before

C10_Witness ==
    /\ Len(hist) = 2
    /\ hist[1].op = "toggle_complete" /\ hist[2].op = "toggle_complete"
    /\ hist[1].id = hist[2].id
    /\ hist[1].returned /\ hist[2].returned
    /\ Len(tasks) >= 2
    /\ tasks = hist[1].pre
    /\ hist[2].pre # tasks

\* C11: loading a store whose document is absent, or present but no valid
\* JSON, yields an empty collection and raises nothing; the document is left
\* as it is.
C11_LoadAbsentOrMalformed ==
    /\ (hist = <<>> /\ doc.kind \in {"absent", "empty", "malformed"}) => tasks = <<>>
    /\ \A n \in DOMAIN hist :
        (hist[n].op = "__init__" /\ hist[n].preDoc.kind \in {"absent", "empty", "malformed"})
        => /\ hist[n].raised = ""
           /\ Post(n) = <<>>
           /\ PostDoc(n) = hist[n].preDoc

C11_Witness ==
    \E n \in DOMAIN hist :
        /\ hist[n].op = "__init__"
        /\ hist[n].preDoc.kind \in {"empty", "malformed"}
        /\ hist[n].pre # <<>>
        /\ Post(n) = <<>>

\* The n-th call is a mutating call that reached its save: an add with valid
\* values, an edit of an existing id with a field supplied and every supplied
\* value valid, a delete or a toggle of an existing id, or a clear.
ReachedSave(n) ==
    LET c == hist[n] IN
    \/ c.op = "add_task" /\ PriorityOk(c.args.priority) /\ CalendarDate(c.args.due_date)
    \/ /\ c.op = "edit_task" /\ Exists(c.pre, c.id) /\ c.args # <<>>
       /\ "priority" \in DOMAIN c.args => PriorityOk(c.args.priority)
       /\ "due_date" \in DOMAIN c.args => CalendarDate(c.args.due_date)
    \/ c.op \in {"delete_task", "toggle_complete"} /\ Exists(c.pre, c.id)
    \/ c.op = "clear_all_tasks"

\* C12: when the write of a mutating call fails (the document does not hold
\* the collection afterwards), nothing is raised, the call returns its normal
\* result and the collection in memory keeps the mutation.
C12_SaveFailureContained ==
    \A n \in DOMAIN hist :
        LET c == hist[n] IN
        (ReachedSave(n) /\ PostDoc(n) # Serialize(Post(n))) =>
            /\ c.raised = ""
            /\ c.op = "add_task" =>
                  c.task # None /\ Post(n) = Append(c.pre, c.task)
            /\ c.op = "edit_task" =>
                  /\ c.returned
                  /\ \A f \in DOMAIN c.args : Post(n)[First(c.pre, c.id)][f] = c.args[f]
            /\ c.op = "delete_task" =>
                  c.returned /\ Len(Post(n)) = Len(c.pre) - 1
            /\ c.op = "toggle_complete" =>
                  /\ c.returned
                  /\ Post(n)[First(c.pre, c.id)].completed = ~c.pre[First(c.pre, c.id)].completed
            /\ c.op = "clear_all_tasks" => Post(n) = <<>>

C12_Witness ==
    \E n \in DOMAIN hist :
        /\ hist[n].op = "delete_task"
        /\ hist[n].returned
        /\ hist[n].preDoc = Serialize(hist[n].pre)
        /\ Post(n) # <<>>
        /\ PostDoc(n) # Serialize(Post(n))
        /\ PostDoc(n) # hist[n].preDoc

\* C13: every record of the live collection has priority High, Medium or Low.
C13_PriorityValid ==
    \A i \in DOMAIN tasks : PriorityOk(tasks[i].priority)

\* C14: every record of the live collection has a due date that is a valid
\* calendar date.
C14_DueDateValid ==
    \A i \in DOMAIN tasks : CalendarDate(tasks[i].due_date)

\* C15: a successful add leaves the existing records and their order
\* unchanged and places the new record last; edit and toggle_complete keep
\* every record at its place; delete removes one place and keeps the order of
\* the remaining records.
C15_InsertionOrder ==
    \A n \in DOMAIN hist :
        LET c == hist[n] IN
        /\ (c.op = "add_task" /\ c.raised = "") =>
              /\ Len(Post(n)) = Len(c.pre) + 1
              /\ \A i \in DOMAIN c.pre : Post(n)[i] = c.pre[i]
              /\ Post(n)[Len(Post(n))] = c.task
        /\ c.op \in {"edit_task", "toggle_complete"} =>
              /\ Len(Post(n)) = Len(c.pre)
              /\ \A i \in DOMAIN c.pre : Post(n)[i].id = c.pre[i].id
        /\ (c.op = "delete_task" /\ c.returned) =>
              \E k \in DOMAIN c.pre :
                  /\ Len(Post(n)) = Len(c.pre) - 1
                  /\ \A i \in DOMAIN Post(n) :
                         Post(n)[i] = IF i < k THEN c.pre[i] ELSE c.pre[i + 1]

C15_Witness ==
    /\ Len(hist) = 2
    /\ hist[1].op = "add_task" /\ hist[1].raised = ""
    /\ Len(hist[1].pre) = 2
    /\ hist[2].op = "delete_task" /\ hist[2].returned
    /\ hist[2].id = hist[1].pre[1].id
    /\ tasks = <<hist[1].pre[2], hist[1].task>>

\* C16: removing, appending or reordering elements of the list get_all_tasks
\* returned, as the GUI's refresh does when it sorts it in place, leaves the
\* store's collection and the order of its records unchanged.
C16_SnapshotIndependent ==
    \A n \in DOMAIN hist :
        hist[n].op \in {"get_all_tasks", "_refresh_task_list"} =>
            Post(n) = hist[n].pre /\ PostDoc(n) = hist[n].preDoc

C16_Witness ==
    /\ \E n \in DOMAIN hist :
        /\ hist[n].op = "get_all_tasks"
        /\ hist[n].args.change = "reverse"
        /\ hist[n].list # hist[n].pre
        /\ Post(n) = hist[n].pre
    /\ \E n \in DOMAIN hist :
        /\ hist[n].op = "_refresh_task_list"
        /\ Len(hist[n].list) >= 2
        /\ \E i \in DOMAIN hist[n].list : hist[n].list[i].id # hist[n].pre[i].id
        /\ Post(n) = hist[n].pre

\* C17: after clear_all the collection has no records, the document holds an
\* empty JSON array, and a store constructed on that document is empty.
C17_ClearAll ==
    \A n \in DOMAIN hist :
        hist[n].op = "clear_all_tasks" =>
            /\ Post(n) = <<>>
            /\ PostDoc(n) = JsonArray(<<>>)
            /\ load_tasks(PostDoc(n), 0) = <<>>

\* The row shows the task.
Shows(row, t) ==
    /\ row.id = t.id /\ row.title = t.title /\ row.priority = t.priority
    /\ row.due_date = t.due_date
    /\ row.status = (IF t.completed THEN "Completed" ELSE "Pending")

\* The rows show exactly the tasks of ts, each as often as ts holds it.
ShowsAll(rows, ts) ==
    /\ Len(rows) = Len(ts)
    /\ \A i \in DOMAIN ts :
           Cardinality({j \in DOMAIN rows : Shows(rows[j], ts[i])})
               = Cardinality({j \in DOMAIN ts : Shows(Row(ts[j]), ts[i])})

\* The priority rank: High 0, Medium 1, Low 2.
Rank(p) == IF p = "High" THEN 0 ELSE IF p = "Medium" THEN 1 ELSE 2

Earlier(a, b) ==
    a[1] < b[1] \/ (a[1] = b[1] /\ (a[2] < b[2] \/ (a[2] = b[2] /\ a[3] < b[3])))

\* C18: when every task to render has a parseable due date, the rows are the
\* tasks in ascending order of due date and, among tasks with the same due
\* date and priorities High, Medium, Low, in ascending priority rank.
C18_RenderOrder ==
    \A n \in DOMAIN hist :
        LET c == hist[n] IN
        (c.op = "_refresh_task_list" /\ \A i \in DOMAIN c.pre : CalendarDate(c.pre[i].due_date))
        => /\ c.raised = ""
           /\ ShowsAll(c.list, c.pre)
           /\ \A i, j \in DOMAIN c.list : i < j =>
                  \/ Earlier(c.list[i].due_date, c.list[j].due_date)
                  \/ /\ c.list[i].due_date = c.list[j].due_date
                     /\ (PriorityOk(c.list[i].priority) /\ PriorityOk(c.list[j].priority))
                            => Rank(c.list[i].priority) <= Rank(c.list[j].priority)

C18_Witness ==
    \E n \in DOMAIN hist :
        /\ hist[n].op = "_refresh_task_list"
        /\ Len(hist[n].pre) = 3
        /\ hist[n].pre[1].title = "Buy milk" /\ hist[n].pre[1].due_date = <<2025, 1, 10>>
        /\ hist[n].pre[2].priority = "Low" /\ hist[n].pre[2].due_date = <<2025, 1, 5>>
        /\ hist[n].pre[3].priority = "High" /\ hist[n].pre[3].due_date = <<2025, 1, 5>>
        /\ hist[n].list[1].id = hist[n].pre[3].id
        /\ hist[n].list[2].priority = "Low"
        /\ hist[n].list[3].title = "Buy milk"

\* C19: if the due date of at least one task to render does not parse (a text
\* that is no date, or the missing due date load passed through), rendering
\* does not fail and the rows are all the tasks in ascending priority rank.
C19_FallbackOrder ==
    \A n \in DOMAIN hist :
        LET c == hist[n] IN
        (c.op = "_refresh_task_list" /\ \E i \in DOMAIN c.pre : ~CalendarDate(c.pre[i].due_date))
        => /\ c.raised = ""
           /\ ShowsAll(c.list, c.pre)
           /\ \A i, j \in DOMAIN c.list :
                  (i < j /\ PriorityOk(c.list[i].priority) /\ PriorityOk(c.list[j].priority))
                  => Rank(c.list[i].priority) <= Rank(c.list[j].priority)

\* The positions of ts that hold a task satisfying Keep, and the m-th of them.
Kept(ts, Keep(_)) == {i \in DOMAIN ts : Keep(ts[i])}

KeptAt(ts, Keep(_), m) ==
    CHOOSE i \in Kept(ts, Keep) : Cardinality({j \in Kept(ts, Keep) : j <= i}) = m

\* C20: get_tasks_by_priority(p) for a valid p returns exactly the records
\* whose priority is p, and get_tasks_by_completion(c) exactly those whose
\* completed is c, each in collection order; neither changes the collection
\* or the document.
C20_FilteredLists ==
    \A n \in DOMAIN hist :
        LET c == hist[n]
            HasPriority(t) == t.priority = c.args.priority_level
            HasStatus(t) == t.completed = c.args.completed_status
        IN  /\ (c.op = "get_tasks_by_priority" /\ PriorityOk(c.args.priority_level)) =>
                  /\ c.raised = ""
                  /\ Len(c.list) = Cardinality(Kept(c.pre, HasPriority))
                  /\ \A m \in DOMAIN c.list : c.list[m] = c.pre[KeptAt(c.pre, HasPriority, m)]
                  /\ Post(n) = c.pre /\ PostDoc(n) = c.preDoc
            /\ c.op = "get_tasks_by_completion" =>
                  /\ c.raised = ""
                  /\ Len(c.list) = Cardinality(Kept(c.pre, HasStatus))
                  /\ \A m \in DOMAIN c.list : c.list[m] = c.pre[KeptAt(c.pre, HasStatus, m)]
                  /\ Post(n) = c.pre /\ PostDoc(n) = c.preDoc

C20_Witness ==
    /\ Len(hist) = 2
    /\ hist[1].op = "get_tasks_by_priority" /\ hist[1].args.priority_level = "High"
    /\ Len(hist[1].pre) = 3 /\ Len(hist[1].list) = 1
    /\ hist[2].op = "get_tasks_by_completion" /\ hist[2].args.completed_status = TRUE
    /\ Len(hist[2].list) = 2

\* C21: get_tasks_by_priority with a priority outside {High, Medium, Low}
\* raises the error add_task raises for that priority, returns no list, and
\* leaves the collection and the document unchanged.
C21_ListByPriorityValidates ==
    \A n \in DOMAIN hist :
        LET c == hist[n] IN
        (c.op = "get_tasks_by_priority" /\ ~PriorityOk(c.args.priority_level)) =>
            /\ c.raised = "ValueError"
            /\ c.raised = add_task(c.pre, c.preDoc, 0,
                                   [title |-> "Buy milk", description |-> "",
                                    priority |-> c.args.priority_level,
                                    due_date |-> <<2024, 3, 15>>]).raised
            /\ c.list = <<>>
            /\ Post(n) = c.pre /\ PostDoc(n) = c.preDoc

C21_Witness ==
    \E n \in DOMAIN hist :
        /\ hist[n].op = "get_tasks_by_priority"
        /\ hist[n].args.priority_level = "Urgent"
        /\ hist[n].raised = "ValueError"
        /\ \E i \in DOMAIN hist[n].pre : hist[n].pre[i].priority = "Urgent"
        /\ Post(n) = hist[n].pre

\* C22: every record of the live collection has a non-empty title.
C22_TitleNonEmpty ==
    \A i \in DOMAIN tasks : tasks[i].title # ""

\* C23: an edit of an existing id with valid values returns True; with every
\* field omitted it changes nothing and writes nothing; with a field supplied
\* the document holds the full collection afterwards.
C23_EditPersistsIffSupplied ==
    \A n \in DOMAIN hist :
        LET c == hist[n] IN
        (c.op = "edit_task" /\ Exists(c.pre, c.id) /\ c.raised = "") =>
            /\ c.returned
            /\ c.args = <<>> => (Post(n) = c.pre /\ PostDoc(n) = c.preDoc)
            /\ c.args # <<>> => PostDoc(n) = Serialize(Post(n))

\* A valid backing document: a JSON array of objects.
ValidDocument(d) == d.kind = "array" /\ \A i \in DOMAIN d.data : IsObject(d.data[i])

\* The keys an element may lack and the defaults the data model gives them.
OptionalDefault(f) ==
    IF f = "description" THEN "" ELSE IF f = "priority" THEN "Medium" ELSE FALSE

\* C24 as stated: loading a valid document makes each element one record; a
\* missing description becomes "", a missing priority Medium, a missing
\* completed false; every field the element holds is taken unchanged.
C24_LoadDefaults_AsStated ==
    LET Holds(d, ts) ==
            ValidDocument(d) =>
                /\ Len(ts) = Len(d.data)
                /\ \A i \in DOMAIN d.data :
                       /\ \A f \in {"description", "priority", "completed"} \ DOMAIN d.data[i] :
                              ts[i][f] = OptionalDefault(f)
                       /\ \A f \in DOMAIN d.data[i] : ts[i][f] = d.data[i][f]
    IN  /\ hist = <<>> => Holds(doc, tasks)
        /\ \A n \in DOMAIN hist : hist[n].op = "__init__" => Holds(hist[n].preDoc, Post(n))

\* C24 as amended: as stated, except that an id the element holds as null or
\* as the empty string is replaced by a generated id.
C24_LoadDefaults ==
    LET Holds(d, ts) ==
            ValidDocument(d) =>
                /\ Len(ts) = Len(d.data)
                /\ \A i \in DOMAIN d.data :
                       /\ \A f \in {"description", "priority", "completed"} \ DOMAIN d.data[i] :
                              ts[i][f] = OptionalDefault(f)
                       /\ \A f \in DOMAIN d.data[i] \ {"id"} : ts[i][f] = d.data[i][f]
                       /\ "id" \in DOMAIN d.data[i] =>
                              IF d.data[i].id # "" THEN ts[i].id = d.data[i].id
                              ELSE /\ ts[i].id # ""
                                   /\ \A j \in DOMAIN d.data :
                                          "id" \in DOMAIN d.data[j] => ts[i].id # d.data[j].id
    IN  /\ hist = <<>> => Holds(doc, tasks)
        /\ \A n \in DOMAIN hist : hist[n].op = "__init__" => Holds(hist[n].preDoc, Post(n))

C24_Witness ==
    \E n \in DOMAIN hist :
        /\ hist[n].op = "__init__"
        /\ hist[n].preDoc = JsonArray(<<ENullId>>)
        /\ Len(Post(n)) = 1
        /\ Post(n)[1].priority = "Medium" /\ Post(n)[1].description = ""
        /\ Post(n)[1].completed = FALSE
        /\ Post(n)[1].title = "Buy milk" /\ Post(n)[1].id # ""

\* C25 as stated: a loaded element that lacks title or due_date gets no
\* default for it: the record's due date is the absent value, and its title
\* is no substituted default.
C25_NoDefault_AsStated ==
    LET Holds(d, ts) ==
            ValidDocument(d) =>
                \A i \in DOMAIN d.data :
                    /\ "due_date" \notin DOMAIN d.data[i] => ts[i].due_date = None
                    /\ "title" \notin DOMAIN d.data[i] => ts[i].title # ""
    IN  /\ hist = <<>> => Holds(doc, tasks)
        /\ \A n \in DOMAIN hist : hist[n].op = "__init__" => Holds(hist[n].preDoc, Post(n))

\* C25 as amended: a loaded element that lacks due_date gets no default, the
\* record's due date is the absent value; one that lacks title gets the empty
\* string as its title.
C25_NoDefault ==
    LET Holds(d, ts) ==
            ValidDocument(d) =>
                \A i \in DOMAIN d.data :
                    /\ "due_date" \notin DOMAIN d.data[i] => ts[i].due_date = None
                    /\ "title" \notin DOMAIN d.data[i] => ts[i].title = ""
    IN  /\ hist = <<>> => Holds(doc, tasks)
        /\ \A n \in DOMAIN hist : hist[n].op = "__init__" => Holds(hist[n].preDoc, Post(n))

C25_Witness ==
    \E n \in DOMAIN hist :
        /\ hist[n].op = "__init__"
        /\ hist[n].preDoc = JsonArray(<<ETitleOnly, EUnchecked>>)
        /\ Len(Post(n)) = 2
        /\ Post(n)[1].due_date = None /\ Post(n)[1].title = "File taxes"
        /\ Post(n)[2].title = "" /\ Post(n)[2].due_date = <<2024, 13, 40>>

\* C26: constructing the store raises nothing whatever the document holds,
\* and a document that is no array of objects, at its top level or in any
\* single element, loads as the empty collection; an array of objects loads
\* whole.
C26_LoadAllOrNothing ==
    LET Holds(d, ts) ==
            IF ValidDocument(d) THEN Len(ts) = Len(d.data) ELSE ts = <<>>
    IN  /\ hist = <<>> => Holds(doc, tasks)
        /\ \A n \in DOMAIN hist :
               hist[n].op = "__init__" =>
                   hist[n].raised = "" /\ Holds(hist[n].preDoc, Post(n))

C26_Witness ==
    \E n \in DOMAIN hist :
        /\ hist[n].op = "__init__"
        /\ hist[n].preDoc.kind = "array"
        /\ hist[n].preDoc.data # <<>>
        /\ IsObject(hist[n].preDoc.data[1])
        /\ \E i \in DOMAIN hist[n].preDoc.data : ~IsObject(hist[n].preDoc.data[i])
        /\ hist[n].raised = ""
        /\ Post(n) = <<>>

\* C27: in the program of main.py, when no task lacks its due date (the case
\* in which C19's rendering fails), the rows of the tree after every event
\* are exactly the store's tasks that match the priority and status filters
\* selected, also after an add, edit, delete or toggle made while a filter
\* other than "All" is selected.
C27_RowsMatchFilters ==
    LET Matches(task) ==
            /\ priority_filter_var # "All" => task.priority = priority_filter_var
            /\ status_filter_var # "All" =>
                   task.completed = (status_filter_var = "Completed")
    IN  (hist # <<>> /\ \A i \in DOMAIN tasks : tasks[i].due_date # None) =>
            ShowsAll(task_tree, SelectSeq(tasks, Matches))

====
